---- MODULE Spec2Model ----
(***************************************************************************)
(* State-machine model of data_logger.py (Clear Creek Scientific data      *)
(* logger): the main relaunch loop, run(), CcsLogger.collect() and the     *)
(* bounded log sink logmsg().                                              *)
(*                                                                         *)
(* The process is single threaded.  One action is one stretch of run()     *)
(* between two points where the environment can be observed: the start of  *)
(* run() up to the end of module loading, one iteration of a for loop over *)
(* the loaded sensor modules, and the sleep that ends a tick or a wake     *)
(* cycle.                                                                  *)
(***************************************************************************)
EXTENDS Integers, Sequences, FiniteSets, TLC

(***************************************************************************)
(* Bounds of the model.                                                    *)
(***************************************************************************)
MaxTicks == 3
MaxRuns == 2
MaxPeriod == 2
MaxRollover == 2
MaxFields == 2
MaxLogRuns == 8

(***************************************************************************)
(* Program constants.                                                      *)
(***************************************************************************)
INFO_MSG == 0
ERROR_MSG == 1
MAX_REPORTED_ERRORS == 20
MAX_REPORTED_INFO_MSGS == 20
TOO_MANY_ERRORS == "Too many errors to report..."
TOO_MANY_INFO_MSGS == "Too many non-error messages to report..."
PM_PISUGAR2 == "pisugar2"
TickSeconds == 60

None == "None"

\* SensorSettings.path before the first collection (None)
NoPath == <<>>

(***************************************************************************)
(* The sensor modules found in the sensormods directory, in os.listdir     *)
(* order.                                                                  *)
(***************************************************************************)
ModuleFiles == <<"m1", "m2">>

VARIABLES
    env,            \* what the process is deployed with: config file, modules, device
    pc,             \* position of the process
    g_done,         \* global g_done
    g_collect,      \* global g_collect
    g_info_count,   \* global g_info_count
    g_error_count,  \* global g_error_count
    log,            \* lines this process has written to its log sink, in order
    sensor_settings,\* g_config.sensor_settings: name -> SensorSettings fields
    sensors,        \* data_logger.sensors: sequence of loaded module names
    power_manager,  \* run()'s local power_manager: None or "connected"
    first_time,     \* run()'s local first_time
    idx,            \* position of the for loop over data_logger.sensors
    files,          \* the csv directory: path -> sequence of lines
    now,            \* wall clock (UTC), in seconds
    hist            \* history of the current run() invocation and of the files

vars == <<env, pc, g_done, g_collect, g_info_count, g_error_count, log, sensor_settings,
          sensors, power_manager, first_time, idx, files, now, hist>>

(***************************************************************************)
(* Inputs.                                                                 *)
(*                                                                         *)
(* A sample is what sensor.get_current_values() returns: a sequence of     *)
(* elements.  An element is a Python sequence; len is its length, label    *)
(* its item 0 and value its item 1.  A (label, value) pair has len 2.      *)
(* Values are sensor readings (numbers); labels are column names.          *)
(***************************************************************************)
Label(i) == <<"temp", "hum", "pres", "batt">>[i]

Pair(i, v) == [label |-> Label(i), value |-> v, len |-> 2]

\* k pairs; the values depend on k so that samples of different arity differ
WellFormed(k) == [i \in 1..k |-> Pair(i, k + i)]

\* k elements, the last of which is a triple (label, value, unit)
Malformed(k) == [i \in 1..k |-> IF i = k THEN [Pair(i, i) EXCEPT !.len = 3]
                                          ELSE Pair(i, i)]

\* the shapes a sensor may return: one pair, MaxFields pairs, a triple last
AllSamples == {WellFormed(1), WellFormed(MaxFields), Malformed(MaxFields)}

\* what one call of collect() meets: the sample call returns, the sample
\* call raises, or open() raises (csv directory missing, disk error)
Outcomes == {"ok", "sample_raises", "io_error"}

(***************************************************************************)
(* Deployments: the content of the configuration file, the module files    *)
(* that load, and the samples the sensors may return.                      *)
(*   settings  : name -> [period, rollover_max], the <sensor> nodes        *)
(*   power     : the <power><manager> text, or None                        *)
(*   power_period : the <power><period> number, or None                    *)
(*   loadable  : the module files whose import and load() succeed          *)
(***************************************************************************)
Schedules == [period : 1..MaxPeriod, rollover_max : 0..MaxRollover]

SettingsOver(names) == [names -> Schedules]

HalfDay == 12 * 3600

\* power_period when the <power> node has no <period>: None; else <<seconds>>
NoPeriod == <<>>

\* tick-loop deployments: no <power> node, every schedule, one sample shape;
\* every module loads, or m2 has a <sensor> node and fails to load
TickDeployments ==
    { [settings |-> ss, power |-> None, power_period |-> NoPeriod,
       loadable |-> {"m1", "m2"}, samples |-> {WellFormed(1)}] :
        ss \in SettingsOver({"m1", "m2"}) \cup SettingsOver({"m1"})
               \cup SettingsOver({"m2"}) }
    \cup
    { [settings |-> ss, power |-> None, power_period |-> NoPeriod,
       loadable |-> {"m1"}, samples |-> {WellFormed(1)}] :
        ss \in [{"m1", "m2"} -> [period : {1}, rollover_max : {1}]] }

\* recorder deployments: every sample shape; m1 fills its files, m2 takes a
\* new file at every collection; in the tick loop, and power-managed
RecorderDeployments ==
    { [settings |-> ("m1" :> [period |-> 1, rollover_max |-> MaxRollover])
                    @@ ("m2" :> [period |-> 1, rollover_max |-> 1]),
       power |-> None, power_period |-> NoPeriod,
       loadable |-> {"m1", "m2"}, samples |-> AllSamples] }
    \cup
    { [settings |-> ("m1" :> [period |-> 1, rollover_max |-> MaxRollover]),
       power |-> PM_PISUGAR2, power_period |-> NoPeriod,
       loadable |-> {"m1", "m2"}, samples |-> AllSamples] }

\* power-managed deployments: both sources bound, one, or none; a known or
\* an unknown manager; with or without a <period>
PowerDeployments ==
    { [settings |-> ss, power |-> pm, power_period |-> pp,
       loadable |-> {"m1", "m2"}, samples |-> {WellFormed(1)}] :
        ss \in [{"m1", "m2"} -> [period : {MaxPeriod}, rollover_max : {MaxRollover}]]
               \cup [{"m2"} -> [period : {1}, rollover_max : {0}]]
               \cup SettingsOver({}),
        pm \in {PM_PISUGAR2, "other"},
        pp \in {NoPeriod, <<HalfDay>>} }

Deployments == TickDeployments \cup RecorderDeployments \cup PowerDeployments

(***************************************************************************)
(* strftime.  %I is the hour on the 12-hour clock, 01..12.                 *)
(***************************************************************************)
Hour12(h) == IF h % 12 = 0 THEN 12 ELSE h % 12

\* the fields '%Y%m%d', '%I', '%M', '%S' of UTC time t
DateOf(t) == t \div 86400
HourOf(t) == Hour12((t \div 3600) % 24)
MinuteOf(t) == (t \div 60) % 60
SecondOf(t) == t % 60

\* get_collect_file_path: strftime('%Y%m%d_%I%M%S') + COLLECT_SUFFIX in csv_dir
get_collect_file_path(t) == <<DateOf(t), HourOf(t), MinuteOf(t), SecondOf(t)>>

(***************************************************************************)
(* Lines of a csv file.  A line is the sequence of the pieces that were    *)
(* concatenated to build it; "," is the separator piece.                   *)
(***************************************************************************)
Str(v) == <<"0", "1", "2", "3", "4", "5", "6", "7", "8", "9">>[v + 1]

RECURSIVE HeaderFrom(_, _)
HeaderFrom(s, dataset) ==
    IF dataset = <<>> THEN s
    ELSE HeaderFrom(s \o <<",", Head(dataset).label>>, Tail(dataset))

\* variant: the header holds the labels only
get_header_LabelsOnly(dataset) ==
    IF dataset = <<>> THEN <<>>
    ELSE HeaderFrom(<<Head(dataset).label>>, Tail(dataset))

\* get_header: 'Timestamp (UTC)' then ',' + str(x[0]) for every element
get_header(dataset) == HeaderFrom(<<"Timestamp (UTC)">>, dataset)

RECURSIVE RowFrom(_, _)
RowFrom(s, data) ==
    IF data = <<>> THEN s
    ELSE RowFrom(IF Head(data).len = 2 THEN s \o <<",", Str(Head(data).value)>>
                 ELSE s,
                 Tail(data))

\* the data row: the timestamp then ',' + str(x[1]) for every element of length 2
DataRow(data) == RowFrom(<<"ts">>, data)

\* number of comma-separated fields of a line
NumFields(line) == 1 + Cardinality({i \in 1..Len(line) : line[i] = ","})

IsHeader(line) == line[1] = "Timestamp (UTC)"

(***************************************************************************)
(* logmsg.  L is [info, error, lines]: the two global counters and the     *)
(* lines written.  g_config.log_path is set by LoggerSettings.read before  *)
(* the first call, so the test of line 72 is true at every call.           *)
(***************************************************************************)
LogAllowed(L, level) ==
    \/ level = 0 /\ L.info <= MAX_REPORTED_INFO_MSGS
    \/ L.error <= MAX_REPORTED_ERRORS

logmsg(L, msg, level) ==
    IF LogAllowed(L, level)
    THEN [lines |-> L.lines \o <<msg>>
                    \o (IF level # 0 /\ L.error = MAX_REPORTED_ERRORS
                        THEN <<TOO_MANY_ERRORS>> ELSE <<>>)
                    \o (IF level = 0 /\ L.info = MAX_REPORTED_INFO_MSGS
                        THEN <<TOO_MANY_INFO_MSGS>> ELSE <<>>),
          info |-> IF level = 0 THEN L.info + 1 ELSE L.info,
          error |-> IF level = 0 THEN L.error ELSE L.error + 1]
    ELSE L

TheLog == [info |-> g_info_count, error |-> g_error_count, lines |-> log]

SetLog(L) ==
    /\ g_info_count' = L.info
    /\ g_error_count' = L.error
    /\ log' = L.lines

(***************************************************************************)
(* CcsLogger.collect                                                       *)
(***************************************************************************)
\* variant: the comparison of line 190 written with > instead of >=
NeedsRotation_Strict(path, count, max) == path = NoPath \/ count > max

\* line 190: a new path is taken
NeedsRotation(path, count, max) == path = NoPath \/ count >= max

\* os.path.getsize(path) after open(path,'a'): a missing file was just created
Content(fs, path) == IF path \in DOMAIN fs THEN fs[path] ELSE <<>>

\* variant: the size test of line 197 left out
HeaderNeeded_Always(old) == TRUE

\* line 197: the header is to be written
HeaderNeeded(old) == Len(old) = 0

\* what the with block of lines 196-207 appends when the sample call returns
Appended(old, data) ==
    (IF HeaderNeeded(old) THEN <<get_header(data)>> ELSE <<>>) \o <<DataRow(data)>>

\* collect(sensor, ss) at time t, meeting outcome o and sample data:
\* the SensorSettings after it, the directory after it, whether it raised
collect(ss, fs, t, o, data) ==
    LET count == ss.rollover_count + 1
        rotate == NeedsRotation(ss.path, count, ss.rollover_max)
        path == IF rotate THEN get_collect_file_path(t) ELSE ss.path
        after == [ss EXCEPT !.path = path,
                            !.rollover_count = IF rotate THEN 0 ELSE count]
        old == Content(fs, path)
    IN  [ss |-> after,
         took |-> rotate,
         rotated |-> rotate /\ ss.path # NoPath,
         raised |-> o # "ok",
         files |-> CASE o = "io_error" -> fs
                     [] o = "sample_raises" -> (path :> old) @@ fs
                     [] OTHER -> (path :> (old \o Appended(old, data))) @@ fs]

\* seconds that may pass on the wall clock between the previous reading of
\* the clock and the reading of line 218
ClockSteps == {0, 1}

StepsFor(ss) ==
    IF NeedsRotation(ss.path, ss.rollover_count + 1, ss.rollover_max)
    THEN ClockSteps ELSE {0}

(***************************************************************************)
(* History of the current invocation of run() (reset when run() starts)    *)
(* and of the files.                                                       *)
(*   calls[n]  collect() calls for sensor n                                *)
(*   done[n]   collect() calls for sensor n that returned                  *)
(*   rot[n]    calls that replaced a set path by a new one                 *)
(*   opened[n] the paths taken by sensor n, in order                       *)
(*   tick      ticks started (0 outside the tick loop)                     *)
(*   sleeps    calls of power_manager.sleep; slept_for its argument        *)
(*   failed    a collection raised                                         *)
(*   runs      invocations of run() so far                                 *)
(*   appended  path -> the samples written to it by calls that returned    *)
(*   last[n]   the tick of the latest collection of sensor n that returned *)
(*   gap[n]    ticks between the latest two such collections (0: fewer)    *)
(*   missing   lookups of sensor_settings that found no entry              *)
(* and, kept over the invocations of run():                                *)
(*   used[n]   the paths sensor n wrote to after taking them, each with    *)
(*             the second at which the name was formed                     *)
(*   stop_run  the invocation in which a stop flag was assigned (0: none)  *)
(*   stop      "no", then "raised" when a stop flag is assigned, then      *)
(*             "passed" when the sleep of that tick has returned           *)
(***************************************************************************)
Zero(names) == [n \in names |-> 0]

\* the history before the first invocation
NoHist == [appended |-> <<>>, used |-> <<>>, stop_run |-> 0, stop |-> "no"]

FreshHist(names, runs, kept) ==
    [calls |-> Zero(names), done |-> Zero(names), rot |-> Zero(names),
     opened |-> [n \in names |-> <<>>], tick |-> 0, sleeps |-> 0,
     slept_for |-> NoPeriod, failed |-> FALSE, runs |-> runs,
     last |-> Zero(names), gap |-> Zero(names), missing |-> 0,
     appended |-> kept.appended,
     used |-> [n \in names |-> IF n \in DOMAIN kept.used THEN kept.used[n]
                                                          ELSE <<>>],
     stop_run |-> kept.stop_run, stop |-> kept.stop]

\* the history after collect() result r for sensor n with sample data, the
\* clock of line 218 reading t
Recorded(h, n, r, data, t) ==
    [h EXCEPT !.calls[n] = @ + 1,
              !.last[n] = IF r.raised THEN @ ELSE h.tick,
              !.gap[n] = IF r.raised \/ h.last[n] = 0 THEN @ ELSE h.tick - h.last[n],
              !.used[n] = IF r.took /\ ~r.raised
                          THEN Append(@, [path |-> r.ss.path, at |-> t]) ELSE @,
              !.done[n] = IF r.raised THEN @ ELSE @ + 1,
              !.rot[n] = IF r.rotated THEN @ + 1 ELSE @,
              !.opened[n] = IF r.took THEN Append(@, r.ss.path) ELSE @,
              !.failed = r.raised,
              !.appended = IF r.raised THEN @
                           ELSE (r.ss.path :> (Content(@, r.ss.path) \o <<data>>)) @@ @]

Bound(n) == n \in DOMAIN sensor_settings

(***************************************************************************)
(* Init: the process has just started, before the first call of run().     *)
(***************************************************************************)
Init ==
    /\ env \in Deployments
    /\ pc = "main"
    /\ g_done = FALSE
    /\ g_collect = TRUE
    /\ g_info_count = 0
    /\ g_error_count = 0
    /\ log = <<>>
    /\ sensor_settings = <<>>
    /\ sensors = <<>>
    /\ power_manager = None
    /\ first_time = TRUE
    /\ idx = 1
    /\ files = <<>>
    /\ now = 0
    /\ hist = FreshHist({}, 0, NoHist)

(***************************************************************************)
(* run(), lines 249-273: read the configuration, probe the power manager,  *)
(* load the sensor modules.                                                *)
(***************************************************************************)
\* LoggerSettings.read: one fresh SensorSettings for every <sensor> node
ReadSettings ==
    [n \in DOMAIN env.settings |->
        [ticks |-> 0, period |-> env.settings[n].period,
         rollover_max |-> env.settings[n].rollover_max,
         rollover_count |-> 0, path |-> NoPath]]

\* what sugarcube.Connection() and get_battery_percentage() may do
Probes == {"ok", "refused", "disconnected"}

\* get_pisugar2_manager: the log after it, for probe outcome p
ProbeLog(L, p) ==
    \* power_manager.logmsg reports through the callback set at line 228
    LET L1 == CASE p = "ok" -> logmsg(L, "Battery", 0)
                [] p = "refused" ->
                       logmsg(L, "PiSugar configured, but not found", ERROR_MSG)
                [] OTHER ->
                       logmsg(L, "PiSugar configured, but not available", ERROR_MSG)
    IN  IF env.power_period = NoPeriod
        THEN logmsg(L1, "PiSugar power manager is missing period", ERROR_MSG)
        ELSE L1

\* get_pisugar2_manager: the manager it returns
ProbeManager(p) == IF p = "ok" THEN "connected" ELSE None

\* variant: line 269 left out
DoneWhenUnreachable_Retry == FALSE

\* line 269: the value g_done takes when no manager could be reached
DoneWhenUnreachable == TRUE

\* load_sensor_modules: the sensors list and the log after files fs
RECURSIVE LoadModules(_, _, _)
LoadModules(fs, loaded, L) ==
    IF fs = <<>> THEN [sensors |-> loaded, log |-> L]
    ELSE IF Head(fs) \in env.loadable
         THEN LoadModules(Tail(fs), Append(loaded, Head(fs)),
                          logmsg(L, "Loaded sensor module", INFO_MSG))
         ELSE LoadModules(Tail(fs), loaded,
                          logmsg(L, "Failed to load sensor module", ERROR_MSG))

\* lines 272-284: CcsLogger() and the entry of one of the two branches
EnterLoops(L, pm) ==
    LET ld == LoadModules(ModuleFiles, <<>>, L)
    IN  /\ SetLog(ld.log)
        /\ sensors' = ld.sensors
        /\ power_manager' = pm
        /\ idx' = 1
        \* line 284: the tick loop is entered while g_collect is True
        /\ pc' = IF pm # None THEN "pm_loop"
                 ELSE IF g_collect THEN "tick_loop" ELSE "main"
        /\ hist' = [FreshHist(DOMAIN env.settings, hist.runs + 1, hist)
                        EXCEPT !.tick = IF pm = None /\ g_collect THEN 1 ELSE 0]
        /\ UNCHANGED g_done

\* invocations of run() that are followed: deployments without <sensor>
\* nodes only log, and are followed until both message caps are passed
RunLimit == IF DOMAIN env.settings = {} THEN MaxLogRuns ELSE MaxRuns

RunStart ==
    /\ pc = "main"
    /\ g_done = FALSE
    /\ hist.runs < RunLimit
    /\ first_time' = TRUE
    /\ sensor_settings' = ReadSettings
    /\ UNCHANGED <<env, g_collect, files, now>>
    /\ \/ /\ env.power = None
          /\ EnterLoops(TheLog, None)
       \/ /\ env.power = PM_PISUGAR2
          /\ \E p \in Probes :
                IF ProbeManager(p) # None
                THEN EnterLoops(ProbeLog(TheLog, p), ProbeManager(p))
                ELSE /\ SetLog(logmsg(ProbeLog(TheLog, p),
                                      "I assume you want to browse data", 0))
                     /\ g_done' = DoneWhenUnreachable
                     /\ pc' = "main"
                     /\ power_manager' = None
                     /\ hist' = FreshHist(DOMAIN env.settings, hist.runs + 1,
                                          hist)
                     /\ UNCHANGED <<sensors, idx>>
       \/ /\ env.power \notin {None, PM_PISUGAR2}
          \* line 263 reads sensor_settings, which run() never binds: NameError
          /\ pc' = "crashed"
          /\ power_manager' = None
          /\ hist' = FreshHist(DOMAIN env.settings, hist.runs + 1, hist)
          /\ UNCHANGED <<g_done, g_info_count, g_error_count, log, sensors, idx>>

\* line 304: the relaunch loop ends
Exit ==
    /\ pc = "main"
    /\ g_done = TRUE
    /\ pc' = "exited"
    /\ UNCHANGED <<env, g_done, g_collect, g_info_count, g_error_count, log,
                   sensor_settings, sensors, power_manager, first_time, idx,
                   files, now, hist>>

(***************************************************************************)
(* The power-managed branch, lines 275-282.                                *)
(***************************************************************************)
\* variant: the wake cycle applies the tick loop's test of line 288
PmDue_Period(ss) == ss.ticks >= ss.period

\* line 278: the source is collected in a wake cycle
PmDue(ss) == TRUE

PmCollect ==
    /\ pc = "pm_loop"
    /\ idx <= Len(sensors)
    /\ LET n == sensors[idx]
       IN  IF Bound(n)
           THEN IF PmDue(sensor_settings[n])
                THEN \E o \in Outcomes, data \in env.samples,
                        d \in StepsFor(sensor_settings[n]) :
                        LET r == collect(sensor_settings[n], files, now + d, o, data)
                        IN  /\ now' = now + d
                            /\ sensor_settings' = [sensor_settings EXCEPT ![n] = r.ss]
                            /\ files' = r.files
                            /\ hist' = Recorded(hist, n, r, data, now + d)
                            /\ pc' = IF r.raised THEN "crashed" ELSE pc
                            /\ idx' = IF r.raised THEN idx ELSE idx + 1
                            /\ UNCHANGED <<g_info_count, g_error_count, log>>
                ELSE /\ idx' = idx + 1
                     /\ UNCHANGED <<now, sensor_settings, files, hist, pc,
                                    g_info_count, g_error_count, log>>
           ELSE /\ SetLog(logmsg(TheLog, "Couldn't find settings", ERROR_MSG))
                /\ idx' = idx + 1
                /\ hist' = [hist EXCEPT !.missing = @ + 1]
                /\ UNCHANGED <<now, sensor_settings, files, pc>>
    /\ UNCHANGED <<env, g_done, g_collect, sensors, power_manager, first_time>>

\* seconds on the wall clock between the call of power_manager.sleep and the
\* next start of run(): the call returns at once, or the device keeps the
\* board off for the configured period
WakeAfter == {<<0>>, env.power_period} \ {NoPeriod}

\* line 282, all sources done: power_manager.sleep(g_config.power_period)
PmSleepReady == idx > Len(sensors)

PmSleep ==
    /\ pc = "pm_loop"
    /\ PmSleepReady
    /\ hist' = [hist EXCEPT !.sleeps = @ + 1, !.slept_for = env.power_period]
    /\ \E w \in WakeAfter : now' = now + w[1]
    /\ pc' = "main"
    /\ UNCHANGED <<env, g_done, g_collect, g_info_count, g_error_count, log,
                   sensor_settings, sensors, power_manager, first_time, idx, files>>

(***************************************************************************)
(* The tick loop, lines 284-297.                                           *)
(***************************************************************************)
\* variant: the comparison of line 288 written with > instead of >=
IsDue_Late(ss, first) == ss.ticks > ss.period \/ first

\* line 288
IsDue(ss, first) == ss.ticks >= ss.period \/ first

TickSensor ==
    /\ pc = "tick_loop"
    /\ idx <= Len(sensors)
    /\ LET n == sensors[idx]
       IN  IF Bound(n)
           THEN IF IsDue(sensor_settings[n], first_time)
                THEN \E o \in Outcomes, data \in env.samples,
                        d \in StepsFor(sensor_settings[n]) :
                        LET r == collect(sensor_settings[n], files, now + d, o, data)
                        IN  /\ now' = now + d
                            /\ files' = r.files
                            /\ hist' = Recorded(hist, n, r, data, now + d)
                            /\ IF r.raised
                               THEN /\ pc' = "crashed"
                                    /\ sensor_settings' =
                                         [sensor_settings EXCEPT ![n] = r.ss]
                                    /\ UNCHANGED <<idx, first_time>>
                               ELSE /\ pc' = pc
                                    /\ sensor_settings' =
                                         [sensor_settings EXCEPT
                                            ![n] = [r.ss EXCEPT !.ticks = 1]]
                                    /\ idx' = idx + 1
                                    /\ first_time' = FALSE
                            /\ UNCHANGED <<g_info_count, g_error_count, log>>
                ELSE /\ sensor_settings' =
                          [sensor_settings EXCEPT ![n].ticks = @ + 1]
                     /\ idx' = idx + 1
                     /\ first_time' = FALSE
                     /\ UNCHANGED <<now, files, hist, pc,
                                    g_info_count, g_error_count, log>>
           ELSE /\ SetLog(logmsg(TheLog, "Sensor module is missing sensor-config",
                                 ERROR_MSG))
                /\ idx' = idx + 1
                /\ hist' = [hist EXCEPT !.missing = @ + 1]
                /\ UNCHANGED <<now, sensor_settings, files, pc, first_time>>
    /\ UNCHANGED <<env, g_done, g_collect, sensors, power_manager>>

\* line 297, then the loop test of line 284: the next tick starts while
\* g_collect is True, else run() returns to the relaunch loop
TickSleep ==
    /\ pc = "tick_loop"
    /\ idx > Len(sensors)
    /\ hist.tick < MaxTicks \/ ~g_collect
    /\ now' = now + TickSeconds
    /\ idx' = 1
    /\ pc' = IF g_collect THEN "tick_loop" ELSE "main"
    /\ hist' = [hist EXCEPT !.tick = IF g_collect THEN @ + 1 ELSE @,
                            !.stop = IF @ = "raised" THEN "passed" ELSE @]
    /\ UNCHANGED <<env, g_done, g_collect, g_info_count, g_error_count, log,
                   sensor_settings, sensors, power_manager, first_time, files>>

(***************************************************************************)
(* The stop flags, lines 61-62.  No statement of data_logger.py assigns    *)
(* g_collect, and g_done is assigned at line 269 only; the loops of lines  *)
(* 284 and 304 poll them.  A request to stop that reaches the process      *)
(* while the tick loop runs is the assignment of one of the two flags,     *)
(* once in the life of the process.                                        *)
(* The flags are read at line 284 only, after time.sleep returns, so an    *)
(* assignment anywhere in a tick acts as one made during its sleep.        *)
(***************************************************************************)
StopFlags == {"g_done", "g_collect"}

StopSignal ==
    /\ pc = "tick_loop"
    /\ idx > Len(sensors)
    /\ hist.stop_run = 0
    /\ \E flag \in StopFlags :
          /\ g_done' = (g_done \/ flag = "g_done")
          /\ g_collect' = (g_collect /\ flag # "g_collect")
    /\ hist' = [hist EXCEPT !.stop_run = hist.runs, !.stop = "raised"]
    /\ UNCHANGED <<env, pc, g_info_count, g_error_count, log, sensor_settings,
                   sensors, power_manager, first_time, idx, files, now>>

Next ==
    \/ RunStart
    \/ Exit
    \/ PmCollect
    \/ PmSleep
    \/ TickSensor
    \/ TickSleep
    \/ StopSignal

Spec == Init /\ [][Next]_vars

(***************************************************************************)
(* Vocabulary of the properties.                                           *)
(***************************************************************************)
\* the bound sources: loaded modules that have a <sensor> node
BoundSources == {n \in DOMAIN sensor_settings : \E i \in 1..Len(sensors) : sensors[i] = n}

\* number of data rows of a file
DataRows(f) == Cardinality({i \in 1..Len(f) : ~IsHeader(f[i])})

\* the fields of a line: the pieces between the separators
RECURSIVE SplitFrom(_, _, _)
SplitFrom(line, done, cur) ==
    IF line = <<>> THEN Append(done, cur)
    ELSE IF Head(line) = "," THEN SplitFrom(Tail(line), Append(done, cur), <<>>)
         ELSE SplitFrom(Tail(line), done, Append(cur, Head(line)))

Split(line) == SplitFrom(line, <<>>, <<>>)

\* a sample of exactly k (label, value) pairs
IsPairs(data, k) == Len(data) = k /\ \A j \in 1..k : data[j].len = 2

\* the tick loop has gone over every loaded module in the current tick
TickDone == pc = "tick_loop" /\ idx > Len(sensors)

\* C1: a collection that fails in the tick loop is caught: the process does
\* not terminate on it, so no bound source that is due in the same tick is
\* left uncollected behind a terminated loop.
C1_FailureIsCaught ==
    (hist.failed /\ hist.tick >= 1 /\ pc = "crashed") =>
        \A j \in (idx + 1)..Len(sensors) :
            ~(Bound(sensors[j]) /\ IsDue(sensor_settings[sensors[j]], FALSE))

\* C2: no two distinct sensor descriptors have the same active file path.
C2_NoSharedActiveFile ==
    \A a \in DOMAIN sensor_settings : \A b \in DOMAIN sensor_settings :
        (a # b /\ sensor_settings[a].path # NoPath)
            => sensor_settings[a].path # sensor_settings[b].path

\* C3: every non-empty output file has exactly one header row, and it is the
\* file's first line (so no header was written into a file with content).
C3_OneHeaderFirst ==
    \A p \in DOMAIN files :
        files[p] # <<>> =>
            /\ IsHeader(files[p][1])
            /\ \A i \in 2..Len(files[p]) : ~IsHeader(files[p][i])

\* C3 witness: a file that received a second collection after its header
C3_Witness ==
    \E p \in DOMAIN files : Len(files[p]) >= 3

\* C4: with rolloverMax = R >= 1, after N >= 1 successful collections the
\* active file holds N mod R data rows (R when R divides N), and every file
\* rotated out holds exactly R data rows.
C4_RowsPerFile ==
    \A n \in DOMAIN sensor_settings :
        LET R == sensor_settings[n].rollover_max
            N == hist.done[n]
            used == hist.opened[n]
        IN  (R >= 1 /\ N >= 1 /\ ~hist.failed) =>
                /\ DataRows(files[sensor_settings[n].path])
                     = (IF N % R = 0 THEN R ELSE N % R)
                /\ \A i \in 1..(Len(used) - 1) : DataRows(files[used[i]]) = R

\* C5 as stated: after N due collections the number of rotations is floor(N / R).
C5_RotationsFloorNOverR ==
    \A n \in DOMAIN sensor_settings :
        sensor_settings[n].rollover_max >= 1 =>
            hist.rot[n] = hist.calls[n] \div sensor_settings[n].rollover_max

\* C5 amended: after N >= 1 due collections since run() read the settings, the
\* number of rotations is floor((N - 1) / R).
C5_RotationsFloorNMinus1OverR ==
    \A n \in DOMAIN sensor_settings :
        (sensor_settings[n].rollover_max >= 1 /\ hist.calls[n] >= 1) =>
            hist.rot[n] = (hist.calls[n] - 1) \div sensor_settings[n].rollover_max

\* C5 witness: a source with R >= 2 has rotated
C5_Witness ==
    \E n \in DOMAIN sensor_settings :
        sensor_settings[n].rollover_max >= 2 /\ hist.rot[n] >= 1

\* C6: at the end of the first tick after LOAD every bound source has been
\* collected, whatever its period and its place in the iteration order.
C6_FirstTickCollectsAll ==
    (TickDone /\ hist.tick = 1) => \A n \in BoundSources : hist.done[n] >= 1

\* C7: every data row has as many comma-separated fields as the header of
\* its file.
C7_RowArityIsHeaderArity ==
    \A p \in DOMAIN files : \A i \in 2..Len(files[p]) :
        NumFields(files[p][i]) = NumFields(files[p][1])

\* C8: a file to which M samples of k (label, value) pairs each were appended
\* has M + 1 lines: a header of k + 1 columns (the labels after the timestamp
\* column), then one line of k + 1 fields per sample, in collection order.
C8_RoundTrip ==
    \A p \in DOMAIN hist.appended :
        LET w == hist.appended[p]
            f == files[p]
            k == Len(w[1])
        IN  (\A i \in 1..Len(w) : IsPairs(w[i], k)) =>
                /\ Len(f) = Len(w) + 1
                /\ IsHeader(f[1])
                /\ Len(Split(f[1])) = k + 1
                /\ \A j \in 1..k : Split(f[1])[j + 1] = <<w[1][j].label>>
                /\ \A i \in 1..Len(w) :
                      /\ Len(Split(f[i + 1])) = k + 1
                      /\ \A j \in 1..k :
                            Split(f[i + 1])[j + 1] = <<Str(w[i][j].value)>>

\* C8 witness: two samples of MaxFields pairs each were appended to one file
C8_Witness ==
    \E p \in DOMAIN hist.appended :
        /\ Len(hist.appended[p]) >= 2
        /\ \A i \in 1..Len(hist.appended[p]) : IsPairs(hist.appended[p][i], MaxFields)

\* C9: in an invocation of run() with a reachable power manager, sleep is
\* delegated at most once, with the configured period, and only when every
\* bound source has been collected exactly once whatever its period and
\* ticks; no source is collected twice and the tick loop is not entered.
C9_WakeCycle ==
    /\ hist.sleeps >= 1 =>
          /\ hist.sleeps = 1
          /\ hist.slept_for = env.power_period
          /\ \A n \in BoundSources : hist.calls[n] = 1 /\ hist.done[n] = 1
    /\ power_manager # None =>
          /\ hist.tick = 0
          /\ pc # "tick_loop"
          /\ \A n \in DOMAIN sensor_settings : hist.calls[n] <= 1

\* C9 witness: sleep was delegated after two sources whose period had not
\* elapsed were collected
C9_Witness ==
    /\ hist.sleeps = 1
    /\ Cardinality(BoundSources) = 2
    /\ \A n \in BoundSources :
          /\ hist.done[n] = 1
          /\ sensor_settings[n].ticks < sensor_settings[n].period

\* the power-device error lines of a log
DeviceErrors(lines) ==
    Cardinality({i \in 1..Len(lines) :
                    lines[i] \in {"PiSugar configured, but not found",
                                  "PiSugar configured, but not available"}})

\* the step of run() that finds the configured device unreachable
UnreachableStep ==
    /\ env.power = PM_PISUGAR2
    /\ pc = "main" /\ pc' = "main"
    /\ hist'.runs = hist.runs + 1

\* C10: when the configured device is unreachable, run() logs one
\* power-device error, collects nothing, does not enter the tick loop and
\* sets g_done; after that run() is never started again and the process
\* does not crash.
C10_SafeExit ==
    /\ [][UnreachableStep =>
            /\ g_done'
            /\ g_error_count <= MAX_REPORTED_ERRORS =>
                  DeviceErrors(log') = DeviceErrors(log) + 1
            /\ files' = files
            /\ \A n \in DOMAIN sensor_settings' : hist'.calls[n] = 0
            /\ hist'.tick = 0]_vars
    /\ [][(env.power = PM_PISUGAR2 /\ g_done) =>
            /\ g_done'
            /\ hist'.runs = hist.runs
            /\ pc' = "exited"
            /\ files' = files]_vars

\* C10 witness: the process has left the relaunch loop of a power-managed
\* deployment
C10_Witness ==
    /\ pc = "exited"
    /\ env.power = PM_PISUGAR2
    /\ DeviceErrors(log) = 1

\* the messages run() and its callees log at level INFO_MSG
InfoMessages == {"Battery", "Loaded sensor module", "I assume you want to browse data"}

\* the messages run() and its callees log at level ERROR_MSG
ErrorMessages ==
    {"PiSugar configured, but not found", "PiSugar configured, but not available",
     "PiSugar power manager is missing period", "Failed to load sensor module",
     "Couldn't find settings", "Sensor module is missing sensor-config"}

\* number of lines of a log that are messages of a class
LinesOf(lines, class) == Cardinality({i \in 1..Len(lines) : lines[i] \in class})

InfoLines(lines) == LinesOf(lines, InfoMessages)

ErrorLines(lines) == LinesOf(lines, ErrorMessages)

\* positions of data_logger.sensors whose module has no <sensor> node
Unbound == {i \in 1..Len(sensors) : sensors[i] \notin DOMAIN sensor_settings}

\* C11: once a stop flag has been assigned while the tick loop runs and the
\* sleep of that tick has returned, the process is shutting down: no further
\* tick is started, so nothing is collected, and run() is not invoked again.
C11_StopWithinOneTick ==
    hist.stop = "passed" =>
        /\ pc \in {"main", "exited"}
        /\ hist.runs = hist.stop_run

\* C12: the error counter counts the error messages written, one each, and
\* never exceeds MAX_REPORTED_ERRORS: at most 20 error messages are written.
C12_ErrorCap ==
    /\ g_error_count = ErrorLines(log)
    /\ g_error_count <= MAX_REPORTED_ERRORS

\* C13: each class of message is bounded by its own counter only: once the
\* informational counter has passed its cap no informational message is
\* written any more, whatever the error counter, and likewise for errors.
C13_SeparateCaps ==
    [][/\ g_info_count > MAX_REPORTED_INFO_MSGS => InfoLines(log') = InfoLines(log)
       /\ g_error_count > MAX_REPORTED_ERRORS => ErrorLines(log') = ErrorLines(log)]_vars

\* C14: a loaded module without a descriptor is looked up, and its missing
\* descriptor logged, at most once per invocation of run(): the lookups that
\* found nothing are no more than the modules without a descriptor.
C14_MissingLoggedOncePerLoad ==
    hist.missing <= Cardinality(Unbound)

\* C15: in the tick loop, two consecutive collections of a bound source with
\* period P are exactly P ticks apart, whatever the other sources' periods:
\* it is not collected earlier, and when a tick ends no more than P - 1 ticks
\* have passed since its latest collection.
C15_PeriodIsGap ==
    \A n \in BoundSources :
        LET P == sensor_settings[n].period
        IN  /\ hist.gap[n] # 0 => hist.gap[n] = P
            /\ hist.last[n] # 0 => hist.tick - hist.last[n] <= P
            /\ (TickDone /\ hist.last[n] # 0) => hist.tick - hist.last[n] < P

\* C15 witness: a source with period P >= 2 was collected twice, P ticks
\* apart, beside a source with another period that was collected twice too
C15_Witness ==
    \E n \in BoundSources : \E m \in BoundSources :
        /\ sensor_settings[n].period >= 2
        /\ sensor_settings[m].period # sensor_settings[n].period
        /\ hist.gap[n] = sensor_settings[n].period
        /\ hist.gap[m] = sensor_settings[m].period
        /\ ~hist.failed

\* C16: a collection that fails leaves the descriptor as it was before the
\* call (rollover_count and path) and appends nothing to any file.
C16_FailureLeavesNoTrace ==
    [][(hist'.failed /\ ~hist.failed) =>
          /\ \A n \in DOMAIN sensor_settings :
                /\ sensor_settings'[n].rollover_count = sensor_settings[n].rollover_count
                /\ sensor_settings'[n].path = sensor_settings[n].path
          /\ \A p \in DOMAIN files' : files'[p] = Content(files, p)]_vars

\* C17: a path a source takes differs from every path the same source took
\* at another second, whatever the time of day: a file left behind is never
\* taken again.
C17_FreshPathEveryRotation ==
    \A n \in DOMAIN hist.used :
        \A i \in 1..Len(hist.used[n]) : \A j \in 1..Len(hist.used[n]) :
            (i < j /\ hist.used[n][i].at # hist.used[n][j].at)
                => hist.used[n][i].path # hist.used[n][j].path

\* C18: in the power-managed branch a collection that fails does not end
\* the process: the remaining sources are collected and sleep is delegated.
C18_PmFailureIsContained ==
    (power_manager # None /\ hist.failed) => pc \in {"pm_loop", "main"}

\* the start of a wake cycle that follows a completed one
NextWakeStep ==
    /\ hist.sleeps = 1
    /\ hist'.runs = hist.runs + 1
    /\ power_manager' # None

\* C19: a wake cycle starts with the descriptor state the previous cycle
\* left: rollover_count and path of every source are those of before the
\* sleep, so a source with R >= 2 goes on appending to the same file.
C19_DescriptorsSurviveWake ==
    [][NextWakeStep =>
          \A n \in DOMAIN sensor_settings :
              /\ sensor_settings'[n].rollover_count = sensor_settings[n].rollover_count
              /\ sensor_settings'[n].path = sensor_settings[n].path]_vars

\* C20: a source with rollover_max 0 takes a new file at every collection,
\* and every file it took holds one header row and one data row.
C20_OneRowFiles ==
    \A n \in DOMAIN sensor_settings :
        (sensor_settings[n].rollover_max = 0 /\ ~hist.failed) =>
            /\ Len(hist.opened[n]) = hist.calls[n]
            /\ \A i \in 1..Len(hist.opened[n]) :
                  LET f == files[hist.opened[n][i]]
                  IN  Len(f) = 2 /\ IsHeader(f[1]) /\ ~IsHeader(f[2])

====
